---- MODULE Spec2Model ----
(***************************************************************************)
(* Model of mne_rsa/viz.py: plot_dsms (grid of DSM heatmaps),              *)
(* _click_func, _plot_dsms_topo (one heatmap per sensor on a topography)   *)
(* and plot_dsms_topos (one topography per time window).                   *)
(*                                                                         *)
(* Python indices are 0-based; TLA+ sequences are 1-based, so the Python   *)
(* element x[i] is At(x, i).  Floating point values are modelled as exact  *)
(* rationals <<numerator, denominator>> in lowest terms; NaN is <<0, 0>>.  *)
(* An optional Python value is None == <<>> or Some(x) == <<x>>.           *)
(***************************************************************************)
EXTENDS Integers, Sequences, FiniteSets, TLC

VARIABLES registry, last, info, tensor

vars == <<registry, last, info, tensor>>

\* ------------------------------------------------------------- bounds
NSensors == 2
NTimes == 3
NItems == 2
MaxFigs == 2
MaxWindows == 2
MaxDsms == 3
MaxRows == 3

\* ------------------------------------------------------ Python values
None == <<>>
Some(x) == <<x>>
IsNone(o) == o = <<>>
Val(o) == o[1]
At(s, i) == s[i + 1]
Range0(n) == 0 .. (n - 1)

RECURSIVE Gcd(_, _)
Gcd(a, b) == IF b = 0 THEN a ELSE Gcd(b, a % b)

Frac(n, d) == <<n \div Gcd(n, d), d \div Gcd(n, d)>>
Float(n) == <<n, 1>>
NaN == <<0, 0>>

RECURSIVE SeqSum(_)
SeqSum(s) == IF s = <<>> THEN 0 ELSE Head(s) + SeqSum(Tail(s))

\* numpy.mean of a 1-D run of numbers; the mean of nothing is NaN
Mean(s) == IF Len(s) = 0 THEN NaN ELSE Frac(SeqSum(s), Len(s))

\* -------------------------------------------------- scipy squareform
NCondensed == (NItems * (NItems - 1)) \div 2

\* number of items n of a condensed vector of length m: n(n-1)/2 = m
ItemsOf(m) == CHOOSE n \in 1 .. (m + 1) : (n * (n - 1)) \div 2 = m

CondensedIndex(n, i, j) == n * i - ((i * (i + 1)) \div 2) + (j - i - 1)

Squareform(v) ==
    LET n == ItemsOf(Len(v))
    IN  [i \in 1 .. n |-> [j \in 1 .. n |->
            IF i = j THEN Float(0)
            ELSE IF i < j THEN At(v, CondensedIndex(n, i - 1, j - 1))
            ELSE At(v, CondensedIndex(n, j - 1, i - 1))]]

\* --------------------------------------------------- pyplot registry
NoFig == 0
BlankFigure == [title |-> None, panels |-> <<>>]

NewNumber(reg) == Cardinality(DOMAIN reg) + 1

\* plt.figure(): a new figure under the next free number
PltFigureNew(reg) ==
    [n \in (DOMAIN reg) \cup {NewNumber(reg)} |->
        IF n \in DOMAIN reg THEN reg[n] ELSE BlankFigure]

\* (variant: a new figure whatever the number)
PltFigureNumFresh(reg, num) ==
    [reg |-> PltFigureNew(reg), fig |-> NewNumber(reg)]

\* plt.figure(num): the figure of that number; a new one when there is none
PltFigureNum(reg, num) ==
    IF num \in DOMAIN reg
    THEN [reg |-> reg, fig |-> num]
    ELSE [reg |-> [n \in (DOMAIN reg) \cup {num} |->
                       IF n \in DOMAIN reg THEN reg[n] ELSE BlankFigure],
          fig |-> num]

\* ------------------------------------------------------------ inputs
\* the value of dsms[s, t, e] of the 3-D tensor (0-based indices)
TensorValue(s, t, e) == (t + 1) + 10 * s + 100 * e

TensorData ==
    [s \in 1 .. NSensors |-> [t \in 1 .. NTimes |-> [e \in 1 .. NCondensed |->
        TensorValue(s - 1, t - 1, e - 1)]]]

Tensor3 == [shape |-> <<NSensors, NTimes, NCondensed>>, data |-> TensorData]
Tensor2 == [shape |-> <<NSensors, NTimes>>, data |-> TensorData]
Tensor4 == [shape |-> <<NSensors, NTimes, NCondensed, 1>>, data |-> TensorData]
Tensors == {Tensor2, Tensor3, Tensor4}

\* a time window [lo, hi) over the time axis, lo < hi
Windows == {w \in (0 .. NTimes) \X (0 .. NTimes) : w[1] < w[2]}

PyList(items) == [islist |-> TRUE, items |-> items]
PyTuple(items) == [islist |-> FALSE, items |-> items]

\* n windows of the same width, each one sample after the other
Sliding(w, n) == [k \in 1 .. n |-> PyList(<<w[1] + k - 1, w[2] + k - 1>>)]

WindowLists ==
    UNION {{Sliding(w, n) : w \in {x \in Windows : x[2] + n - 1 <= NTimes}} :
           n \in 1 .. MaxWindows}

\* the time_windows argument: None, a list of [int, int] lists, a tuple of
\* lists, or a list holding a tuple
TimeWindowsArgs ==
    {None}
    \cup {Some(PyList(l)) : l \in WindowLists}
    \cup {Some(PyTuple(<<PyList(<<0, NTimes>>)>>)),
          Some(PyList(<<PyTuple(<<0, NTimes>>)>>))}

Injective(s) ==
    \A i, j \in DOMAIN s : s[i] = s[j] => i = j

\* the figs argument: None, a list of distinct open figures, or a list of None
FigsArgs(reg) ==
    {None}
    \cup {Some(l) : l \in UNION {{x \in [1 .. n -> DOMAIN reg] : Injective(x)} :
                                  n \in 0 .. (MaxWindows + 1)}}
    \cup {Some([k \in 1 .. n |-> NoFig]) : n \in 1 .. MaxWindows}

\* what the layout iterator yields: the channel index of each panel, in
\* layout order (all channels in order, in reverse order, or without the first)
Layouts ==
    {[k \in 1 .. NSensors |-> k - 1],
     [k \in 1 .. NSensors |-> NSensors - k],
     [k \in 1 .. (NSensors - 1) |-> k]}

\* a (n_sensors, n_dsm_datapoint) array for a direct _plot_dsms_topo call
Dsms2D(b) ==
    [s \in 1 .. NSensors |-> [e \in 1 .. NCondensed |-> Float(b + 10 * s + e)]]

DirectDsms == {Dsms2D(b) : b \in {20, 40}}

\* ------------------------------------------------------- _click_func
\* the image _click_func draws into the axes it is given
ClickFunc(ch_idx, dsms) == Squareform(At(dsms, ch_idx))

\* --------------------------------------------------- _plot_dsms_topo
\* the row of dsms drawn into the i-th panel the layout iterator yields,
\* which it yields together with the channel index ch_idx
DrawnIndex(i, ch_idx) == i

\* one panel per yielded (ax, ch_idx): the image on top of the axes at that
\* layout position, and the pick callback bound to it
TopoPanels(dsms, inf) ==
    [k \in 1 .. Len(inf) |->
        [image |-> Squareform(At(dsms, DrawnIndex(k - 1, inf[k]))),
         ch_idx |-> inf[k],
         on_pick |-> dsms]]

\* fig is NoFig (None) or a figure number; title is used for a new figure
\* only; returns the registry and the figure
PlotDsmsTopo(reg, dsms, inf, fig, title) ==
    LET got == IF fig = NoFig
               THEN [reg |-> [PltFigureNew(reg) EXCEPT ![NewNumber(reg)].title = title],
                     fig |-> NewNumber(reg)]
               ELSE PltFigureNum(reg, fig)
    IN  [reg |-> [got.reg EXCEPT ![got.fig].panels = TopoPanels(dsms, inf)],
         fig |-> got.fig]

\* --------------------------------------------------- plot_dsms_topos
\* a slice bound of a Python sequence of length n, as slicing reads it
SliceIndex(i, n) == IF i < 0 THEN (IF i + n < 0 THEN 0 ELSE i + n)
                    ELSE IF i > n THEN n ELSE i

\* (variant: the end sample included)
PySliceInclusive(a, lo, hi) ==
    LET l == SliceIndex(lo, Len(a))
        h == SliceIndex(hi, Len(a))
    IN  IF h < l THEN <<>> ELSE SubSeq(a, l + 1, IF h < Len(a) THEN h + 1 ELSE h)

\* a[lo:hi]
PySlice(a, lo, hi) ==
    LET l == SliceIndex(lo, Len(a))
        h == SliceIndex(hi, Len(a))
    IN  IF h <= l THEN <<>> ELSE SubSeq(a, l + 1, h)

\* dsms[:, lo:hi, :].mean(axis=1)
WindowMean(data, lo, hi) ==
    [s \in 1 .. Len(data) |->
        LET cropped == PySlice(data[s], lo, hi)
        IN  [e \in 1 .. NCondensed |->
                Mean([t \in 1 .. Len(cropped) |-> cropped[t][e]])]]

\* (variant: the shape test after the tests of time_windows)
CheckArgsLate(dsms, time_windows, figs) ==
    IF IsNone(time_windows) /\ Len(dsms.shape) = 3
    THEN [err |-> "", time_windows |-> <<<<0, dsms.shape[2]>>>>, figs |-> figs]
    ELSE IF ~IsNone(time_windows) /\ ~Val(time_windows).islist
    THEN [err |-> "TypeError", time_windows |-> <<>>, figs |-> figs]
    ELSE IF ~IsNone(time_windows)
            /\ ~(\A k \in DOMAIN Val(time_windows).items : Val(time_windows).items[k].islist)
    THEN [err |-> "TypeError", time_windows |-> <<>>, figs |-> figs]
    ELSE IF Len(dsms.shape) # 3
    THEN [err |-> "ShapeError", time_windows |-> <<>>, figs |-> figs]
    ELSE LET tw == [k \in DOMAIN Val(time_windows).items |->
                       Val(time_windows).items[k].items]
         IN  IF IsNone(figs)
             THEN [err |-> "", time_windows |-> tw,
                   figs |-> Some([k \in 1 .. Len(tw) |-> NoFig])]
             ELSE IF Len(tw) # Len(Val(figs))
             THEN [err |-> "ArityError", time_windows |-> tw, figs |-> figs]
             ELSE [err |-> "", time_windows |-> tw, figs |-> figs]

\* the if/elif chain on the arguments: the error it raises ("" for none) and
\* time_windows and figs as it leaves them
CheckArgs(dsms, time_windows, figs) ==
    IF Len(dsms.shape) # 3
    THEN [err |-> "ShapeError", time_windows |-> <<>>, figs |-> figs]
    ELSE IF IsNone(time_windows)
    THEN [err |-> "", time_windows |-> <<<<0, dsms.shape[2]>>>>, figs |-> figs]
    ELSE IF ~Val(time_windows).islist
    THEN [err |-> "TypeError", time_windows |-> <<>>, figs |-> figs]
    ELSE IF ~(\A k \in DOMAIN Val(time_windows).items : Val(time_windows).items[k].islist)
    THEN [err |-> "TypeError", time_windows |-> <<>>, figs |-> figs]
    ELSE LET tw == [k \in DOMAIN Val(time_windows).items |->
                       Val(time_windows).items[k].items]
         IN  IF IsNone(figs)
             THEN [err |-> "", time_windows |-> tw,
                   figs |-> Some([k \in 1 .. Len(tw) |-> NoFig])]
             ELSE IF Len(tw) # Len(Val(figs))
             THEN [err |-> "ArityError", time_windows |-> tw, figs |-> figs]
             ELSE [err |-> "", time_windows |-> tw, figs |-> figs]

\* the loop over the windows from window i (0-based) on.  st holds the
\* registry, figs, the error raised, the averages computed (handed: those
\* passed on to _plot_dsms_topo) and the figures drawn into, in order
RECURSIVE WindowLoop(_, _, _, _, _)
WindowLoop(data, tw, inf, i, st) ==
    IF i >= Len(tw) THEN st
    ELSE LET w == At(tw, i)
             dsms_avg == WindowMean(data, w[1], w[2])
             avgd == [st EXCEPT !.averaged = Append(@, dsms_avg)]
         IN  IF IsNone(st.figs)
             THEN [avgd EXCEPT !.err = "NoneSubscript"]
             ELSE IF i >= Len(Val(st.figs))
             THEN [avgd EXCEPT !.err = "IndexError"]
             ELSE LET r == PlotDsmsTopo(st.reg, dsms_avg, inf, At(Val(st.figs), i),
                                        Some(w))
                  IN  WindowLoop(data, tw, inf, i + 1,
                          [avgd EXCEPT !.reg = r.reg,
                                       !.figs = Some([Val(st.figs) EXCEPT ![i + 1] = r.fig]),
                                       !.handed = Append(@, dsms_avg),
                                       !.drew = Append(@, r.fig)])

\* the whole call: the state it ends in, with err = "" when it returns figs
PlotDsmsTopos(reg, dsms, inf, time_windows, figs) ==
    LET chk == CheckArgs(dsms, time_windows, figs)
        st0 == [reg |-> reg, figs |-> chk.figs, err |-> chk.err,
                averaged |-> <<>>, handed |-> <<>>, drew |-> <<>>]
    IN  IF chk.err # "" THEN st0
        ELSE WindowLoop(dsms.data, chk.time_windows, inf, 0, st0)

\* the Python exception class of an error
ExcClass(err) ==
    CASE err = "ShapeError" -> "ValueError"
      [] err = "ArityError" -> "ValueError"
      [] err = "TypeError" -> "TypeError"
      [] err = "NoneSubscript" -> "TypeError"
      [] err = "IndexError" -> "IndexError"
      [] OTHER -> ""

\* --------------------------------------------------------- plot_dsms
\* a DSM for the grid: condensed (1-D), square (2-D) or a 3-D array; the
\* j-th DSM of a list holds the value j + 1, so that its image tells which
\* DSM a cell shows
GridDsm(j, ndim) ==
    LET v == [e \in 1 .. NCondensed |-> Float(j + 1)]
    IN  [ndim |-> ndim,
         vec |-> IF ndim = 1 THEN v ELSE <<>>,
         mat |-> IF ndim = 2 THEN Squareform(v) ELSE <<>>]

NoArray == [ndim |-> 0, vec |-> <<>>, mat |-> <<>>]

DsmLists ==
    UNION {{[j \in 1 .. k |-> GridDsm(j - 1, nd[j])] : nd \in [1 .. k -> 1 .. 3]} :
           k \in 1 .. MaxDsms}

\* the dsms argument: one array, or a list of arrays
DsmsArgs ==
    {[islist |-> TRUE, array |-> NoArray, list |-> l] : l \in DsmLists}
    \cup {[islist |-> FALSE, array |-> l[1], list |-> <<>>] :
             l \in {x \in DsmLists : Len(x) = 1}}

NameOf(k) == <<"name", k>>

NameList(n) == [k \in 1 .. n |-> NameOf(k)]

\* the names argument: None, one str, or a list of str
NamesArgs ==
    {None, Some([isstr |-> TRUE, str |-> NameOf(0), list |-> <<>>])}
    \cup {Some([isstr |-> FALSE, str |-> <<>>, list |-> NameList(n)]) :
             n \in 0 .. (MaxDsms + 1)}

\* dsms after "if not isinstance(dsms, list): dsms = [dsms]"
AsDsmList(dsms) == IF ~dsms.islist THEN <<dsms.array>> ELSE dsms.list

\* (variant: a str is not wrapped, and counts its characters)
AsNameListNoStr(names) ==
    IF IsNone(names) THEN None
    ELSE IF Val(names).isstr THEN Some(Val(names).str)
    ELSE Some(Val(names).list)

\* names after "if isinstance(names, str): names = [names]"
AsNameList(names) ==
    IF IsNone(names) THEN None
    ELSE IF Val(names).isstr THEN Some(<<Val(names).str>>)
    ELSE Some(Val(names).list)

\* the check of names against dsms (both as lists)
CheckNames(dsms, names) ==
    IF ~IsNone(names) /\ Len(Val(names)) # Len(dsms) THEN "ArityError" ELSE ""

\* (variant: rounded down)
NColsFloor(n_dsms, n_rows) == n_dsms \div n_rows

\* int(np.ceil(len(dsms) / n_rows))
NCols(n_dsms, n_rows) ==
    IF n_dsms % n_rows = 0 THEN n_dsms \div n_rows ELSE (n_dsms \div n_rows) + 1

\* i = row * n_cols + col % n_cols
CellIndex(row, col, n_cols) == (row * n_cols) + (col % n_cols)

\* fig.subplots(n_rows, n_cols): visible axes with nothing drawn
EmptyCell == [visible |-> TRUE, image |-> <<>>, title |-> None]

Subplots(n_rows, n_cols) ==
    [row \in 1 .. n_rows |-> [col \in 1 .. n_cols |-> EmptyCell]]

\* ax[row, col] (0-based)
AxAt(ax, row, col) == ax[row + 1][col + 1]

\* the two nested loops from cell pos on, in row-major order
RECURSIVE GridLoop(_, _, _, _, _, _)
GridLoop(dsms, names, n_rows, n_cols, pos, st) ==
    IF pos >= n_rows * n_cols THEN st
    ELSE LET row == pos \div n_cols
             col == pos % n_cols
             i == CellIndex(row, col, n_cols)
         IN  IF i < Len(dsms)
             THEN LET dsm == At(dsms, i)
                  IN  IF dsm.ndim > 2
                      THEN [st EXCEPT !.err = "ShapeError"]
                      ELSE LET im == IF dsm.ndim = 1 THEN Squareform(dsm.vec)
                                     ELSE dsm.mat
                               ttl == IF IsNone(names) THEN None
                                      ELSE Some(At(Val(names), i))
                           IN  GridLoop(dsms, names, n_rows, n_cols, pos + 1,
                                   [st EXCEPT !.cells =
                                                  [@ EXCEPT ![row + 1][col + 1] =
                                                      [visible |-> TRUE, image |-> im,
                                                       title |-> ttl]],
                                              !.im = Some(im)])
             ELSE GridLoop(dsms, names, n_rows, n_cols, pos + 1,
                      [st EXCEPT !.cells =
                                     [@ EXCEPT ![row + 1][col + 1].visible = FALSE]])

NoGrid == [created |-> 0, n_rows |-> 0, n_cols |-> 0, cells |-> <<>>,
           im |-> None, colorbar |-> None, err |-> ""]

\* the whole call: the figure it made (created = 1) and the error it raised
PlotDsms(dsms_arg, names_arg, n_rows) ==
    LET dsms == AsDsmList(dsms_arg)
        names == AsNameList(names_arg)
        err == CheckNames(dsms, names)
        n_cols == NCols(Len(dsms), n_rows)
        st0 == [NoGrid EXCEPT !.created = 1, !.n_rows = n_rows, !.n_cols = n_cols,
                              !.cells = Subplots(n_rows, n_cols)]
    IN  IF err # "" THEN [NoGrid EXCEPT !.err = err]
        ELSE LET st == GridLoop(dsms, names, n_rows, n_cols, 0, st0)
             IN  IF st.err # "" THEN st ELSE [st EXCEPT !.colorbar = st.im]

\* ------------------------------------------------------------- state
\* registry: the figures pyplot holds, by number (topography figures; the
\*           figure of a plot_dsms call is kept in last.grid).
\* last:     the last call: its arguments, the registry before it (pre),
\*           and what it did.
\* info:     what the layout iterator yields for the recording.
\* tensor:   the caller's DSM array.
NoCall ==
    [op |-> "none", time_windows |-> None, figs |-> None, fig |-> NoFig,
     dsms |-> <<>>, names |-> None, n_rows |-> 0, err |-> "", ret |-> None,
     averaged |-> <<>>, handed |-> <<>>, drew |-> <<>>, pre |-> <<>>,
     image |-> <<>>, grid |-> NoGrid]

Init ==
    /\ registry = <<>>
    /\ last = NoCall
    /\ info \in Layouts
    /\ tensor \in Tensors

\* a session is a run of _plot_dsms_topo calls and picks, closed by one
\* plot_dsms_topos call: the figures a plot_dsms_topos call is passed are
\* those the _plot_dsms_topo calls before it have rendered
Open == last.op # "plot_dsms_topos"

\* figs = plot_dsms_topos(tensor, info, time_windows=tw, figs=figs)
CallPlotDsmsTopos ==
    /\ Open
    /\ \E tw \in TimeWindowsArgs, figs \in FigsArgs(registry) :
        \E st \in {PlotDsmsTopos(registry, tensor, info, tw, figs)} :
            /\ Cardinality(DOMAIN st.reg) <= MaxFigs
            /\ registry' = st.reg
            /\ last' = [NoCall EXCEPT !.op = "plot_dsms_topos",
                                      !.time_windows = tw,
                                      !.figs = figs,
                                      !.err = st.err,
                                      !.ret = IF st.err = "" THEN st.figs ELSE None,
                                      !.averaged = st.averaged,
                                      !.handed = st.handed,
                                      !.drew = st.drew,
                                      !.pre = registry]
            /\ UNCHANGED <<info, tensor>>

\* fig = _plot_dsms_topo(dsms, info, fig=fig)
CallPlotDsmsTopo ==
    /\ Open
    /\ \E d \in DirectDsms, fig \in (DOMAIN registry) \cup {NoFig} :
        \E r \in {PlotDsmsTopo(registry, d, info, fig, None)} :
            /\ Cardinality(DOMAIN r.reg) <= MaxFigs
            /\ registry' = r.reg
            /\ last' = [NoCall EXCEPT !.op = "_plot_dsms_topo",
                                      !.dsms = d,
                                      !.fig = fig,
                                      !.ret = Some(r.fig),
                                      !.drew = <<r.fig>>,
                                      !.pre = registry]
            /\ UNCHANGED <<info, tensor>>

\* a pick on panel k of figure f: the layout iterator calls the bound
\* on_pick(ax, ch_idx) with a fresh axes
Pick ==
    /\ Open
    /\ \E f \in DOMAIN registry :
        \E k \in DOMAIN registry[f].panels :
            LET p == registry[f].panels[k]
            IN  /\ last' = [NoCall EXCEPT !.op = "pick",
                                          !.fig = f,
                                          !.dsms = p.on_pick,
                                          !.ret = Some(k),
                                          !.image = ClickFunc(p.ch_idx, p.on_pick),
                                          !.pre = registry]
                /\ UNCHANGED <<registry, info, tensor>>

Next == CallPlotDsmsTopos \/ CallPlotDsmsTopo \/ Pick

Spec == Init /\ [][Next]_vars

\* fig = plot_dsms(dsms, names=names, n_rows=n_rows)
CallPlotDsms ==
    /\ last.op = "none"
    /\ \E d \in DsmsArgs, nm \in NamesArgs, r \in 1 .. MaxRows :
        \E g \in {PlotDsms(d, nm, r)} :
            /\ last' = [NoCall EXCEPT !.op = "plot_dsms",
                                      !.dsms = d,
                                      !.names = nm,
                                      !.n_rows = r,
                                      !.err = g.err,
                                      !.grid = g,
                                      !.pre = registry]
            /\ UNCHANGED <<registry, info, tensor>>

InitGrid ==
    /\ registry = <<>>
    /\ last = NoCall
    /\ info = [k \in 1 .. NSensors |-> k - 1]
    /\ tensor = Tensor3

NextGrid == CallPlotDsms

SpecGrid == InitGrid /\ [][NextGrid]_vars

\* ------------------------------------------------------------ claims
IsTopos == last.op = "plot_dsms_topos"
IsRender == last.op = "_plot_dsms_topo"
IsGrid == last.op = "plot_dsms"

\* the windows a call is to render: those given, or the one default window
NWindowsOf(time_windows) ==
    IF IsNone(time_windows) THEN 1 ELSE Len(Val(time_windows).items)

WindowOf(time_windows, i) ==
    IF IsNone(time_windows) THEN <<0, NTimes>> ELSE Val(time_windows).items[i].items

WellFormed(time_windows) ==
    \/ IsNone(time_windows)
    \/ /\ Val(time_windows).islist
       /\ \A k \in DOMAIN Val(time_windows).items : Val(time_windows).items[k].islist

RECURSIVE SumOver(_, _, _)
SumOver(s, e, T) ==
    IF T = {} THEN 0
    ELSE LET t == CHOOSE x \in T : TRUE
         IN  TensorValue(s, t, e) + SumOver(s, e, T \ {t})

\* m is the arithmetic mean of tensor[s, t, e] over the samples lo <= t < hi
IsMeanOver(m, s, e, lo, hi) ==
    LET T == {t \in Range0(NTimes) : lo <= t /\ t < hi}
    IN  /\ m[2] > 0
        /\ m[1] * Cardinality(T) = m[2] * SumOver(s, e, T)

\* C1: with a 3-D tensor and time_windows=None (figs given or left None) the
\* call returns exactly one figure, drawn from the mean over the whole time
\* axis.  The code raises when figs is None as well.
C1_WindowDefault ==
    (IsTopos /\ Len(tensor.shape) = 3 /\ IsNone(last.time_windows)) =>
        /\ last.err = ""
        /\ ~IsNone(last.ret)
        /\ Len(Val(last.ret)) = 1
        /\ Len(last.handed) = 1
        /\ \A s \in Range0(NSensors), e \in Range0(NCondensed) :
               IsMeanOver(last.handed[1][s + 1][e + 1], s, e, 0, NTimes)

\* C2: a figs list whose length differs from the number of windows makes the
\* call fail with ArityError before any window is rendered.  The code does
\* not check the length when time_windows is None.
C2_FiguresArity ==
    (/\ IsTopos
     /\ Len(tensor.shape) = 3
     /\ WellFormed(last.time_windows)
     /\ ~IsNone(last.figs)
     /\ Len(Val(last.figs)) # NWindowsOf(last.time_windows)) =>
        /\ last.err = "ArityError"
        /\ last.drew = <<>>
        /\ registry = last.pre

\* C3: a tensor that is not 3-dimensional makes plot_dsms_topos raise
\* ShapeError (a ValueError), whatever time_windows and figs are, with no
\* window averaged, no figure created and no figure drawn into.
C3_TensorShapeCheck ==
    (IsTopos /\ Len(tensor.shape) # 3) =>
        /\ last.err = "ShapeError"
        /\ ExcClass(last.err) = "ValueError"
        /\ last.averaged = <<>>
        /\ last.handed = <<>>
        /\ last.drew = <<>>
        /\ registry = last.pre

C3_Witness ==
    /\ IsTopos
    /\ Len(tensor.shape) # 3
    /\ last.err = "ShapeError"
    /\ ~IsNone(last.time_windows)
    /\ ~WellFormed(last.time_windows)
    /\ ~IsNone(last.figs)
    /\ Len(Val(last.figs)) > 0
    /\ Val(last.figs)[1] \in DOMAIN last.pre

\* C4: every DSM handed to _plot_dsms_topo is, per sensor and entry, the
\* arithmetic mean of the tensor over the samples start <= t < end of its
\* window (start inclusive, end exclusive).
C4_WindowMean ==
    IsTopos =>
        \A i \in DOMAIN last.handed :
            \A s \in Range0(NSensors), e \in Range0(NCondensed) :
                IsMeanOver(last.handed[i][s + 1][e + 1], s, e,
                           WindowOf(last.time_windows, i)[1],
                           WindowOf(last.time_windows, i)[2])

\* samples [1, 2, 3] of sensor 0 with window [1, 3) give 2.5
C4_Witness ==
    /\ IsTopos
    /\ last.time_windows = Some(PyList(<<PyList(<<1, 3>>)>>))
    /\ Len(last.handed) = 1
    /\ last.handed[1][1][1] = <<5, 2>>
    /\ last.drew # <<>>

\* C5: a _plot_dsms_topo call that is passed a figure rendered by an earlier
\* call creates no figure, returns that figure, leaves the other figures
\* alone, and shows in every panel its own DSM where the earlier call's was.
C5_FigureReuse ==
    (IsRender /\ last.fig # NoFig) =>
        /\ DOMAIN registry = DOMAIN last.pre
        /\ last.ret = Some(last.fig)
        /\ \A f \in (DOMAIN registry) \ {last.fig} : registry[f] = last.pre[f]
        /\ DOMAIN registry[last.fig].panels = DOMAIN last.pre[last.fig].panels
        /\ \A k \in DOMAIN registry[last.fig].panels :
               \E j \in 1 .. NSensors :
                   /\ registry[last.fig].panels[k].image = Squareform(last.dsms[j])
                   /\ last.pre[last.fig].panels[k].image =
                          Squareform(last.pre[last.fig].panels[k].on_pick[j])

C5_Witness ==
    /\ IsRender
    /\ last.fig \in DOMAIN last.pre
    /\ last.pre[last.fig].panels # <<>>
    /\ \A k \in DOMAIN registry[last.fig].panels :
           registry[last.fig].panels[k].image # last.pre[last.fig].panels[k].image

\* C9: the image drawn into a panel is the one its pick callback draws:
\* dsms[ch_idx] for the channel index yielded with the panel.  The code
\* draws dsms[i] for the position i of the panel in the iteration.
C9_SensorIndexedDrawing ==
    \A f \in DOMAIN registry :
        \A k \in DOMAIN registry[f].panels :
            registry[f].panels[k].image =
                ClickFunc(registry[f].panels[k].ch_idx, registry[f].panels[k].on_pick)

\* C10: a plot_dsms_topos call that returns has rendered window i into figure
\* slot i only (figs[i] when given, a new figure otherwise), has left every
\* other figure unchanged, and returns one figure per window, in window order.
C10_WindowFigureIsolation ==
    (IsTopos /\ last.err = "") =>
        /\ ~IsNone(last.ret)
        /\ Len(Val(last.ret)) = NWindowsOf(last.time_windows)
        /\ last.drew = Val(last.ret)
        /\ \A i \in DOMAIN Val(last.ret) :
               IF ~IsNone(last.figs) /\ Val(last.figs)[i] # NoFig
               THEN Val(last.ret)[i] = Val(last.figs)[i]
               ELSE Val(last.ret)[i] \notin DOMAIN last.pre
        /\ \A f \in DOMAIN last.pre :
               (\A i \in DOMAIN last.drew : last.drew[i] # f) => registry[f] = last.pre[f]

\* ------------------------------------------------------- grid claims
DsmsCount(dsms) == IF dsms.islist THEN Len(dsms.list) ELSE 1
NamesCount(names) == IF Val(names).isstr THEN 1 ELSE Len(Val(names).list)

\* the image of the DSM at position i (0-based) of the dsms argument
ImageOfDsm(i) == Squareform([e \in 1 .. NCondensed |-> Float(i + 1)])

GridCells(g) == {rc \in Range0(g.n_rows) \X Range0(g.n_cols) : TRUE}

\* C6: plot_dsms raises ArityError (a ValueError) exactly when names is given
\* and its length, one for a str, differs from the number of DSMs, one for a
\* single array.
C6_GridArity ==
    IsGrid =>
        /\ (last.err = "ArityError") <=>
               (~IsNone(last.names) /\ NamesCount(last.names) # DsmsCount(last.dsms))
        /\ (last.err = "ArityError") => ExcClass(last.err) = "ValueError"

C6_Witness ==
    /\ IsGrid
    /\ last.err = "ArityError"
    /\ Val(last.names).isstr
    /\ DsmsCount(last.dsms) = 2
    /\ last.grid.created = 0

\* C7: a plot_dsms call that returns has built an n_rows x ceil(k / n_rows)
\* grid with exactly k visible cells, the others hidden, and cell (row, col)
\* shows DSM row * n_cols + col, so each DSM is shown in exactly one cell.
C7_GridLayout ==
    (IsGrid /\ last.err = "") =>
        LET g == last.grid
            k == DsmsCount(last.dsms)
            r == last.n_rows
        IN  /\ g.n_rows = r
            /\ r * g.n_cols >= k
            /\ r * (g.n_cols - 1) < k
            /\ Len(g.cells) = r
            /\ \A row \in 1 .. r : Len(g.cells[row]) = g.n_cols
            /\ Cardinality({rc \in GridCells(g) : AxAt(g.cells, rc[1], rc[2]).visible}) = k
            /\ Cardinality({rc \in GridCells(g) : ~AxAt(g.cells, rc[1], rc[2]).visible})
                   = r * g.n_cols - k
            /\ \A rc \in GridCells(g) :
                   AxAt(g.cells, rc[1], rc[2]).visible =>
                       /\ rc[1] * g.n_cols + rc[2] < k
                       /\ AxAt(g.cells, rc[1], rc[2]).image =
                              ImageOfDsm(rc[1] * g.n_cols + rc[2])
            /\ \A i \in Range0(k) :
                   Cardinality({rc \in GridCells(g) :
                                   /\ AxAt(g.cells, rc[1], rc[2]).visible
                                   /\ AxAt(g.cells, rc[1], rc[2]).image = ImageOfDsm(i)}) = 1

C7_Witness ==
    /\ IsGrid
    /\ last.err = ""
    /\ DsmsCount(last.dsms) = 3
    /\ last.n_rows = 2
    /\ last.grid.n_cols = 2
    /\ ~AxAt(last.grid.cells, 1, 1).visible
    /\ AxAt(last.grid.cells, 1, 0).image = ImageOfDsm(2)

\* C8: when plot_dsms or plot_dsms_topos raises ShapeError, ArityError or
\* TypeError, it has created no figure and drawn nothing.  plot_dsms raises
\* its ShapeError from inside the drawing loop.
C8_EagerValidation ==
    /\ (IsGrid /\ last.err \in {"ShapeError", "ArityError", "TypeError"}) =>
           /\ last.grid.created = 0
           /\ \A rc \in GridCells(last.grid) :
                  AxAt(last.grid.cells, rc[1], rc[2]).image = <<>>
    /\ (IsTopos /\ last.err \in {"ShapeError", "ArityError", "TypeError"}) =>
           /\ registry = last.pre
           /\ last.drew = <<>>

====
